---- MODULE Spec2Model ----
(***************************************************************************)
(* Model of CreateEventsJSON.py (WikipediaCollector).                      *)
(*                                                                         *)
(* Python values are records [t, s, n]: t is the type tag, s the text of   *)
(* a str (a sequence of atoms: pieces of text that contain none of the     *)
(* characters the code splits or strips on), n the value of an int.        *)
(***************************************************************************)
EXTENDS Integers, Sequences, FiniteSets, TLC

\* ------------------------------------------------------------------ bounds
MaxClaims == 2
MaxItems == 2
MaxLines == 2

\* ----------------------------------------------------------- Python values
None == [t |-> "null", s |-> <<>>, n |-> 0]
Str(s) == [t |-> "str", s |-> s, n |-> 0]
Num(n) == [t |-> "num", s |-> <<>>, n |-> n]
\* a key that is not in a dict
Missing == [t |-> "missing", s |-> <<>>, n |-> 0]
\* an exception travelling up to the enclosing try
Raised == [t |-> "raised", s |-> <<>>, n |-> 0]

\* bool(v), as `if not v` evaluates it
truthy(v) ==
  CASE v.t = "str" -> v.s # <<>>
    [] v.t = "num" -> v.n # 0
    [] OTHER -> FALSE

\* d.get(key, default) for a key holding v or Missing
get(v, default) == IF v = Missing THEN default ELSE v

\* s.lstrip('+')
RECURSIVE lstrip_plus(_)
lstrip_plus(s) ==
  IF s # <<>> /\ Head(s) = "+" THEN lstrip_plus(Tail(s)) ELSE s

\* s.split(sep)
RECURSIVE split(_, _)
split(s, sep) ==
  IF \A k \in 1..Len(s) : s[k] # sep
  THEN <<s>>
  ELSE LET k == CHOOSE j \in 1..Len(s) :
                  s[j] = sep /\ \A h \in 1..(j-1) : s[h] # sep
       IN <<SubSeq(s, 1, k-1)>> \o split(SubSeq(s, k+1, Len(s)), sep)

\* -------------------------------------------------------- _extract_date
\* The body of the try block: a str, None (fell through) or Raised.
extract_date_try(claims) ==
  LET c == claims[1] IN
  IF c.kind # "dict" \/ c.mainsnak = "null" \/ (c.mainsnak = "dict" /\ c.datavalue = "null")
  THEN Raised
  ELSE IF c.mainsnak = "missing" \/ c.datavalue = "missing" \/ c.value # "dict"
       \/ c.time = Missing
  THEN None
  ELSE IF c.time.t # "str" THEN Raised
  ELSE
    LET precision == get(c.precision, Num(11))
        time_str  == split(lstrip_plus(c.time.s), "T")[1]
        parts     == split(time_str, "-")
    IN IF precision = Num(9) THEN Str(parts[1] \o <<"-", "01", "-", "01">>)
       ELSE IF precision = Num(10)
            THEN IF Len(parts) < 2 THEN Raised
                 ELSE Str(parts[1] \o <<"-">> \o parts[2] \o <<"-", "01">>)
       ELSE Str(time_str)

_extract_date(claims) ==
  IF claims = <<>> THEN None
  ELSE LET r == extract_date_try(claims) IN IF r = Raised THEN None ELSE r

\* ------------------------------------------------------- get_wikidata_id
\* The value returned from inside the for loop, or Missing when the loop
\* ends without a return, or Raised.
RECURSIVE wikidata_id_loop(_)
wikidata_id_loop(pages) ==
  IF pages = <<>> THEN Missing
  ELSE LET page == Head(pages) IN
       IF page.page_id # "-1"
       THEN IF page.kind # "dict" THEN Raised
            ELSE get(page.wikibase_item, None)
       ELSE wikidata_id_loop(Tail(pages))

get_wikidata_id(resp) ==
  IF resp.status # "ok" THEN None
  ELSE LET r == wikidata_id_loop(resp.pages)
       IN IF r = Raised \/ r = Missing THEN None ELSE r

\* ----------------------------------------------------- get_wikidata_info
NoInfo == [english_title |-> None, start_date |-> None, end_date |-> None]

\* `or` in place of `and` in the point-in-time test
get_wikidata_info_or(resp) ==
  IF resp.status # "ok" \/ resp.claims_kind # "dict" THEN NoInfo
  ELSE
    LET english_title == get(resp.title, None)
        start0 == _extract_date(resp.claims.P580)
        end0   == _extract_date(resp.claims.P582)
        point_in_time == _extract_date(resp.claims.P585)
        usePoint == (~truthy(start0) \/ ~truthy(end0)) /\ truthy(point_in_time)
        start1 == IF usePoint THEN point_in_time ELSE start0
        end1   == IF usePoint THEN point_in_time ELSE end0
        start2 == IF ~truthy(start1) THEN _extract_date(resp.claims.P571) ELSE start1
        end2   == IF ~truthy(end1) THEN _extract_date(resp.claims.P576) ELSE end1
    IN [english_title |-> english_title, start_date |-> start2, end_date |-> end2]

get_wikidata_info(resp) ==
  IF resp.status # "ok" \/ resp.claims_kind # "dict" THEN NoInfo
  ELSE
    LET english_title == get(resp.title, None)
        start0 == _extract_date(resp.claims.P580)
        end0   == _extract_date(resp.claims.P582)
        point_in_time == _extract_date(resp.claims.P585)
        usePoint == ~truthy(start0) /\ ~truthy(end0) /\ truthy(point_in_time)
        start1 == IF usePoint THEN point_in_time ELSE start0
        end1   == IF usePoint THEN point_in_time ELSE end0
        start2 == IF ~truthy(start1) THEN _extract_date(resp.claims.P571) ELSE start1
        end2   == IF ~truthy(end1) THEN _extract_date(resp.claims.P576) ELSE end1
    IN [english_title |-> english_title, start_date |-> start2, end_date |-> end2]

\* ------------------------------------------------- get_english_pageviews
Digits == <<"0", "1", "2", "3", "4", "5", "6", "7", "8", "9">>

\* f"{year}" for a non-negative int
RECURSIVE format_int(_)
format_int(n) ==
  IF n < 10 THEN <<Digits[n + 1]>>
  ELSE format_int(n \div 10) \o <<Digits[(n % 10) + 1]>>

\* the start_date and end_date of the requested range
pageviews_range(year) ==
  IF year = 2025
  THEN [start |-> <<"2", "0", "2", "5", "0", "1", "0", "1">>,
        end   |-> <<"2", "0", "2", "5", "0", "1", "0", "9">>]
  ELSE [start |-> format_int(year) \o <<"0", "1", "0", "1">>,
        end   |-> format_int(year) \o <<"1", "2", "3", "1">>]

\* english_title.replace(' ', '_')
replace_spaces(s) == [k \in 1..Len(s) |-> IF s[k] = " " THEN "_" ELSE s[k]]

\* sum(item.get('views', 0) for item in items), starting from acc
RECURSIVE sum_views(_, _)
sum_views(items, acc) ==
  IF items = <<>> THEN Num(acc)
  ELSE LET item == Head(items) IN
       IF item.kind # "dict" THEN Raised
       ELSE LET v == get(item.views, Num(0)) IN
            IF v.t # "num" THEN Raised
            ELSE sum_views(Tail(items), acc + v.n)

\* Raised when the exception leaves the function (the URL is built before
\* the try block).
get_english_pageviews(english_title, year, resp) ==
  IF english_title.t # "str" THEN Raised
  ELSE IF resp.status # "ok" \/ resp.data # "dict" THEN Num(0)
  ELSE LET total == sum_views(IF resp.has_items THEN resp.items ELSE <<>>, 0)
       IN IF total = Raised THEN Num(0) ELSE total


\* ------------------------------------------------- inputs of _extract_date
Claim(kind, mainsnak, datavalue, value, time, precision) ==
  [kind |-> kind, mainsnak |-> mainsnak, datavalue |-> datavalue,
   value |-> value, time |-> time, precision |-> precision]

TailZ == <<"T", "00:00:00Z">>
\* raw time tokens of a claim value
TimeTokens ==
  { <<"+", "1789", "-", "07", "-", "14">> \o TailZ,
    <<"1789", "-", "07", "-", "14">> \o TailZ,
    <<"+", "+", "1789", "-", "07", "-", "14">> \o TailZ,
    <<"-", "0044", "-", "03", "-", "15">> \o TailZ,
    <<"+", "1780", "-", "00", "-", "00">> \o TailZ,
    <<"+", "1789", "-", "07">>,
    <<"+", "1789">>,
    <<"x">>,
    <<>> }

Precisions == {Missing, Num(9), Num(10), Num(11), Num(7)}

TimedClaims ==
  { Claim("dict", "dict", "dict", "dict", Str(tok), p) :
      tok \in TimeTokens, p \in Precisions }

\* first claims without a usable time field
ShapelessClaims ==
  { Claim("str", "missing", "missing", "missing", Missing, Missing),
    Claim("dict", "missing", "missing", "missing", Missing, Missing),
    Claim("dict", "null", "missing", "missing", Missing, Missing),
    Claim("dict", "dict", "missing", "missing", Missing, Missing),
    Claim("dict", "dict", "null", "missing", Missing, Missing),
    Claim("dict", "dict", "dict", "missing", Missing, Missing),
    Claim("dict", "dict", "dict", "str", Missing, Missing),
    Claim("dict", "dict", "dict", "dict", Missing, Num(11)),
    Claim("dict", "dict", "dict", "dict", Num(1789), Num(9)) }

ClaimSet == TimedClaims \cup ShapelessClaims

SeqsUpTo(S, n) == UNION { [1..k -> S] : k \in 0..n }

\* ------------------------------------------- inputs of get_wikidata_info
DayClaim(year) ==
  Claim("dict", "dict", "dict", "dict",
        Str(<<"+", year, "-", "07", "-", "14">> \o TailZ), Num(11))
EmptyTimeClaim == Claim("dict", "dict", "dict", "dict", Str(<<>>), Num(11))
NoValueClaim == Claim("dict", "dict", "dict", "missing", Missing, Missing)

\* the claim lists one property can hold; year tells the properties apart
PropClaims(year) ==
  { <<>>, <<DayClaim(year)>>, <<EmptyTimeClaim>>, <<NoValueClaim, DayClaim(year)>> }

ClaimsDicts ==
  [P580 : PropClaims("1914"), P582 : PropClaims("1918"), P585 : PropClaims("1963"),
   P571 : PropClaims("1900"), P576 : PropClaims("1950")]

NoClaims == [P580 |-> <<>>, P582 |-> <<>>, P585 |-> <<>>, P571 |-> <<>>, P576 |-> <<>>]

EntityResponse(status, claims_kind, title, claims) ==
  [status |-> status, claims_kind |-> claims_kind, title |-> title, claims |-> claims]

EntityResponses ==
  { EntityResponse("ok", "dict", title, claims) :
      title \in {Missing, Str(<<"En">>)}, claims \in ClaimsDicts }
  \cup { EntityResponse("error", "dict", Missing, NoClaims),
         EntityResponse("ok", "list", Str(<<"En">>), NoClaims) }

\* --------------------------------------- inputs of get_english_pageviews
Item(kind, views) == [kind |-> kind, views |-> views]

ItemSet ==
  { Item("dict", v) : v \in {Missing, None, Num(0), Num(10), Num(-5), Str(<<"7">>)} }
  \cup { Item("str", Missing) }

MetricsResponse(status, data, has_items, items) ==
  [status |-> status, data |-> data, has_items |-> has_items, items |-> items]

MetricsFailures ==
  { MetricsResponse(st, "dict", FALSE, <<>>) :
      st \in {"http404", "http500", "transport", "badjson"} }

MetricsResponses ==
  { MetricsResponse("ok", "dict", TRUE, items) : items \in SeqsUpTo(ItemSet, MaxItems) }
  \cup { MetricsResponse("ok", "dict", FALSE, <<>>),
         MetricsResponse("ok", "list", FALSE, <<>>) }
  \cup MetricsFailures

ViewsTitles == { Str(<<"En">>), Str(<<"World", " ", "War">>) }
ViewsYears == {2024, 2025, 2026}

\* --------------------------------------------------- inputs of the run
Page(page_id, kind, wikibase_item) ==
  [page_id |-> page_id, kind |-> kind, wikibase_item |-> wikibase_item]

LookupResponse(status, pages) == [status |-> status, pages |-> pages]

LookupResponses ==
  { LookupResponse("transport", <<>>),
    LookupResponse("ok", <<>>),
    LookupResponse("ok", <<Page("-1", "dict", Missing)>>),
    LookupResponse("ok", <<Page("123", "dict", Str(<<"Q1">>))>>),
    LookupResponse("ok", <<Page("123", "dict", Missing)>>),
    LookupResponse("ok", <<Page("123", "dict", Str(<<>>))>>),
    LookupResponse("ok", <<Page("123", "str", Missing)>>),
    LookupResponse("ok", <<Page("-1", "dict", Missing), Page("123", "dict", Str(<<"Q1">>))>>),
    LookupResponse("ok", <<Page("123", "dict", Missing), Page("456", "dict", Str(<<"Q1">>))>>) }

YearClaimBCE ==
  Claim("dict", "dict", "dict", "dict",
        Str(<<"-", "0044", "-", "03", "-", "15">> \o TailZ), Num(9))

\* entity records met during a run
RunEntityResponses ==
  { EntityResponse("error", "dict", Missing, NoClaims),
    EntityResponse("ok", "dict", Missing, NoClaims),
    EntityResponse("ok", "dict", Str(<<>>), NoClaims),
    EntityResponse("ok", "dict", Num(5), NoClaims),
    EntityResponse("ok", "dict", Str(<<"En">>), NoClaims),
    EntityResponse("ok", "dict", Str(<<"World", " ", "War">>),
                   [NoClaims EXCEPT !.P580 = <<DayClaim("1914")>>,
                                    !.P576 = <<DayClaim("1918")>>]),
    EntityResponse("ok", "dict", Str(<<"En">>),
                   [NoClaims EXCEPT !.P585 = <<YearClaimBCE>>]) }

\* metrics responses met during a run
RunMetricsResponses ==
  { MetricsResponse("http404", "dict", FALSE, <<>>),
    MetricsResponse("transport", "dict", FALSE, <<>>),
    MetricsResponse("ok", "dict", TRUE, <<Item("dict", Num(10)), Item("dict", Num(0))>>),
    MetricsResponse("ok", "dict", TRUE, <<Item("dict", Num(10)), Item("dict", None)>>) }

\* lines of the input file
LineSet == { <<"A">>, <<" ", "B", " ">>, <<" ">> }

InputFile(exists, lines) == [exists |-> exists, lines |-> lines]

InputFiles ==
  { InputFile(TRUE, lines) : lines \in SeqsUpTo(LineSet, MaxLines) }
  \cup { InputFile(FALSE, <<>>) }

\* the year of the system clock during the run
ClockYears == {2025, 2026}

\* ------------------------------------------------------- process_article
\* line.strip()
RECURSIVE lstrip(_)
lstrip(s) == IF s # <<>> /\ Head(s) = " " THEN lstrip(Tail(s)) ELSE s

RECURSIVE rstrip(_)
rstrip(s) ==
  IF s # <<>> /\ s[Len(s)] = " " THEN rstrip(SubSeq(s, 1, Len(s) - 1)) ELSE s

strip(s) == rstrip(lstrip(s))

\* [line.strip() for line in f if line.strip()]
RECURSIVE read_titles(_)
read_titles(lines) ==
  IF lines = <<>> THEN <<>>
  ELSE IF strip(Head(lines)) # <<>>
       THEN <<strip(Head(lines))>> \o read_titles(Tail(lines))
       ELSE read_titles(Tail(lines))

\* the check of the identifier left out
skip_no_id_never(wikidata_id) == FALSE

\* if not wikidata_id: return None
skip_no_id(wikidata_id) == ~truthy(wikidata_id)

\* if not info['english_title']: return None
skip_no_title(info) == ~truthy(info.english_title)

make_result(hebrew_title, info, pageviews) ==
  [hebrew_article |-> hebrew_title,
   start_date |-> info.start_date,
   end_date |-> info.end_date,
   english_article |-> info.english_title,
   english_pageviews_2025 |-> pageviews]

\* results.insert(0, result) in place of append
append_result_prepend(results, result) == <<result>> \o results

\* results.append(result)
append_result(results, result) == Append(results, result)

\* the request a fetch step sends, or the pause, as seen from outside
Event(kind, i, range) == [kind |-> kind, i |-> i, range |-> range]
NoRange == [start |-> <<>>, end |-> <<>>]

VARIABLES
  file,         \* the input file
  now_year,     \* year of datetime.now()
  pc,           \* position of process_file
  titles,       \* titles read from the file
  idx,          \* position of the for loop, from 1
  wikidata_id,  \* local of process_article
  info,         \* local of process_article
  results,      \* results list of process_file
  output,       \* the output file
  log,          \* requests and pauses of the run, in order
  hist,         \* per title: what the lookup and the entity fetch returned
  d_claims, d_pc, d_result,              \* a call of _extract_date
  e_resp, e_pc, e_info,                  \* a call of get_wikidata_info
  m_title, m_year, m_resp, m_pc, m_views \* a call of get_english_pageviews

run_vars == <<file, now_year, pc, titles, idx, wikidata_id, info, results, output, log, hist>>
d_vars == <<d_claims, d_pc, d_result>>
e_vars == <<e_resp, e_pc, e_info>>
m_vars == <<m_title, m_year, m_resp, m_pc, m_views>>
vars == <<run_vars, d_vars, e_vars, m_vars>>

NoOutput == [written |-> FALSE, data |-> <<>>]

IdleRun ==
  /\ file = InputFile(FALSE, <<>>) /\ now_year = 2025 /\ pc = "idle"
  /\ titles = <<>> /\ idx = 1 /\ wikidata_id = None /\ info = NoInfo
  /\ results = <<>> /\ output = NoOutput /\ log = <<>> /\ hist = <<>>
IdleDate == d_claims = <<>> /\ d_pc = "idle" /\ d_result = None
IdleInfo ==
  e_resp = EntityResponse("error", "dict", Missing, NoClaims) /\ e_pc = "idle" /\ e_info = NoInfo
IdleViews ==
  /\ m_title = Str(<<>>) /\ m_year = 2025 /\ m_pc = "idle" /\ m_views = None
  /\ m_resp = MetricsResponse("transport", "dict", FALSE, <<>>)

\* ------------------------------------------------ specification SpecDate
InitDate ==
  /\ d_claims \in SeqsUpTo(ClaimSet, MaxClaims)
  /\ d_pc = "call"
  /\ d_result = None
  /\ IdleRun /\ IdleInfo /\ IdleViews

ExtractDate ==
  /\ d_pc = "call"
  /\ d_result' = _extract_date(d_claims)
  /\ d_pc' = "ret"
  /\ UNCHANGED <<d_claims, run_vars, e_vars, m_vars>>

NextDate == ExtractDate

SpecDate == InitDate /\ [][NextDate]_vars

\* ------------------------------------------------ specification SpecInfo
InitInfo ==
  /\ e_resp \in EntityResponses
  /\ e_pc = "call"
  /\ e_info = NoInfo
  /\ IdleRun /\ IdleDate /\ IdleViews

WikidataInfo ==
  /\ e_pc = "call"
  /\ e_info' = get_wikidata_info(e_resp)
  /\ e_pc' = "ret"
  /\ UNCHANGED <<e_resp, run_vars, d_vars, m_vars>>

NextInfo == WikidataInfo

SpecInfo == InitInfo /\ [][NextInfo]_vars

\* ----------------------------------------------- specification SpecViews
InitViews ==
  /\ m_title \in ViewsTitles
  /\ m_year \in ViewsYears
  /\ m_resp \in MetricsResponses
  /\ m_pc = "call"
  /\ m_views = None
  /\ IdleRun /\ IdleDate /\ IdleInfo

EnglishPageviews ==
  /\ m_pc = "call"
  /\ m_views' = get_english_pageviews(m_title, m_year, m_resp)
  /\ m_pc' = "ret"
  /\ UNCHANGED <<m_title, m_year, m_resp, run_vars, d_vars, e_vars>>

NextViews == EnglishPageviews

SpecViews == InitViews /\ [][NextViews]_vars

\* ---------------------------------------------------- specification Spec
\* the run of process_file over the input file
Init ==
  /\ file \in InputFiles
  /\ now_year \in ClockYears
  /\ pc = "read"
  /\ titles = <<>> /\ idx = 1
  /\ wikidata_id = None /\ info = NoInfo
  /\ results = <<>> /\ output = NoOutput
  /\ log = <<>> /\ hist = <<>>
  /\ IdleDate /\ IdleInfo /\ IdleViews

\* where the for loop goes after the title at position i
after_title(i) == IF i + 1 > Len(titles) THEN "save" ELSE "lookup"

ReadFile ==
  /\ pc = "read"
  /\ IF file.exists
     THEN /\ titles' = read_titles(file.lines)
          /\ pc' = IF titles' = <<>> THEN "save" ELSE "lookup"
     ELSE /\ titles' = titles
          /\ pc' = "done"
  /\ UNCHANGED <<file, now_year, idx, wikidata_id, info, results, output, log, hist>>
  /\ UNCHANGED <<d_vars, e_vars, m_vars>>

Lookup ==
  /\ pc = "lookup"
  /\ \E resp \in LookupResponses :
       LET id == get_wikidata_id(resp) IN
       /\ log' = Append(log, Event("lookup", idx, NoRange))
       /\ hist' = Append(hist, [id |-> id, title |-> Missing])
       /\ IF skip_no_id(id)
          THEN /\ wikidata_id' = None
               /\ idx' = idx + 1
               /\ pc' = after_title(idx)
          ELSE /\ wikidata_id' = id
               /\ idx' = idx
               /\ pc' = "entity"
  /\ UNCHANGED <<file, now_year, titles, info, results, output>>
  /\ UNCHANGED <<d_vars, e_vars, m_vars>>

Entity ==
  /\ pc = "entity"
  /\ \E resp \in RunEntityResponses :
       LET i == get_wikidata_info(resp) IN
       /\ log' = Append(log, Event("entity", idx, NoRange))
       /\ hist' = [hist EXCEPT ![idx].title = i.english_title]
       /\ IF skip_no_title(i)
          THEN /\ info' = NoInfo
               /\ wikidata_id' = None
               /\ idx' = idx + 1
               /\ pc' = after_title(idx)
          ELSE /\ info' = i
               /\ wikidata_id' = wikidata_id
               /\ idx' = idx
               /\ pc' = "metrics"
  /\ UNCHANGED <<file, now_year, titles, results, output>>
  /\ UNCHANGED <<d_vars, e_vars, m_vars>>

Metrics ==
  /\ pc = "metrics"
  /\ \E resp \in RunMetricsResponses :
       LET pageviews == get_english_pageviews(info.english_title, 2025, resp) IN
       IF pageviews = Raised
       THEN /\ pc' = "aborted"
            /\ UNCHANGED <<idx, wikidata_id, info, results, log>>
       ELSE /\ log' = log \o << Event("metrics", idx, pageviews_range(2025)),
                                Event("sleep", idx, NoRange) >>
            /\ results' = append_result(results, make_result(titles[idx], info, pageviews))
            /\ info' = NoInfo
            /\ wikidata_id' = None
            /\ idx' = idx + 1
            /\ pc' = after_title(idx)
  /\ UNCHANGED <<file, now_year, titles, output, hist>>
  /\ UNCHANGED <<d_vars, e_vars, m_vars>>

Save ==
  /\ pc = "save"
  /\ \E ok \in BOOLEAN :
       output' = IF ok THEN [written |-> TRUE, data |-> results] ELSE output
  /\ pc' = "done"
  /\ UNCHANGED <<file, now_year, titles, idx, wikidata_id, info, results, log, hist>>
  /\ UNCHANGED <<d_vars, e_vars, m_vars>>

Next == ReadFile \/ Lookup \/ Entity \/ Metrics \/ Save

Spec == Init /\ [][Next]_vars

\* ================================================================ claims

\* indices of the titles 1..n, in order, for which the lookup returned an
\* identifier and the entity fetch returned a target title
RECURSIVE KeptSeq(_)
KeptSeq(n) ==
  IF n = 0 THEN <<>>
  ELSE IF truthy(hist[n].id) /\ truthy(hist[n].title)
       THEN Append(KeptSeq(n - 1), n)
       ELSE KeptSeq(n - 1)

\* C1: the result sequence is exactly the titles processed so far, in input
\* order, for which get_wikidata_id returned an identifier and
\* get_wikidata_info returned a target title: one record each, none for any
\* other title; and the saved output is that sequence.
C1_ResultsAreKeptTitles ==
  pc # "idle" =>
    LET K == KeptSeq(idx - 1) IN
    /\ Len(results) = Len(K)
    /\ \A j \in 1..Len(K) :
         /\ results[j].hebrew_article = titles[K[j]]
         /\ results[j].english_article = hist[K[j]].title
    /\ (pc = "done" /\ file.exists => idx = Len(titles) + 1)
    /\ (output.written => output.data = results)

\* titles [A, B], A without identifier, B resolved: one record, for B
C1_Witness ==
  /\ pc = "done" /\ Len(titles) = 2 /\ titles[1] # titles[2]
  /\ ~truthy(hist[1].id)
  /\ Len(results) = 1 /\ results[1].hebrew_article = titles[2]

\* two records, in input order
C1_WitnessTwo ==
  /\ pc = "done" /\ Len(results) = 2
  /\ results[1].hebrew_article = titles[1] /\ results[2].hebrew_article = titles[2]
  /\ titles[1] # titles[2]

\* the five extracted dates of the entity record in e_resp
P580 == _extract_date(e_resp.claims.P580)
P582 == _extract_date(e_resp.claims.P582)
P585 == _extract_date(e_resp.claims.P585)
P571 == _extract_date(e_resp.claims.P571)
P576 == _extract_date(e_resp.claims.P576)
\* a date is present when the extraction produced a non-empty string
Present(d) == d # None /\ d # Str(<<>>)
InfoReturned == e_pc = "ret" /\ e_resp.status = "ok" /\ e_resp.claims_kind = "dict"

\* C2: start = P580 and end = P582 when present; P585 is used, for both,
\* only when P580 and P582 are both absent; then start falls back to P571 and
\* end to P576.
C2_FallbackChain ==
  InfoReturned =>
    /\ (Present(P580) => e_info.start_date = P580)
    /\ (Present(P582) => e_info.end_date = P582)
    /\ (~Present(P580) /\ ~Present(P582) /\ Present(P585) =>
          e_info.start_date = P585 /\ e_info.end_date = P585)
    /\ (~Present(P580) /\ (Present(P582) \/ ~Present(P585)) =>
          e_info.start_date = P571)
    /\ (~Present(P582) /\ (Present(P580) \/ ~Present(P585)) =>
          e_info.end_date = P576)

\* start time and dissolution without end time, point in time also there
C2_Witness ==
  /\ InfoReturned
  /\ Present(P580) /\ ~Present(P582) /\ Present(P585) /\ Present(P576)
  /\ e_info.start_date = P580 /\ e_info.end_date = P576

\* point in time alone
C2_WitnessPoint ==
  /\ InfoReturned
  /\ ~Present(P580) /\ ~Present(P582) /\ Present(P585)
  /\ ~Present(P571) /\ ~Present(P576)
  /\ e_info.start_date = P585 /\ e_info.end_date = P585

Years == {"1789", "0044", "1780", "1914", "1918", "1963", "1900", "1950"}
Months == {"01", "03", "07"}
Days == {"01", "14", "15"}
TwoDigits == Months \cup Days \cup {"00"}

\* v is a str of the form YYYY-MM-DD naming a calendar date
WellFormedDate(v) ==
  /\ v.t = "str"
  /\ Len(v.s) = 5
  /\ v.s[1] \in Years /\ v.s[2] = "-" /\ v.s[3] \in Months
  /\ v.s[4] = "-" /\ v.s[5] \in Days

HasTime(c) == c.kind = "dict" /\ c.mainsnak = "dict" /\ c.datavalue = "dict"
              /\ c.value = "dict" /\ c.time.t = "str"

\* a time token of the form [sign]YYYY-MM-DDT...
TimeForm(s) ==
  LET b == IF s # <<>> /\ Head(s) \in {"+", "-"} THEN Tail(s) ELSE s IN
  /\ Len(b) >= 6
  /\ b[1] \in Years /\ b[2] = "-" /\ b[3] \in TwoDigits
  /\ b[4] = "-" /\ b[5] \in TwoDigits /\ b[6] = "T"

\* C3: a date extracted from a first claim that carries a time field, with
\* a token of the form [sign]YYYY-MM-DDT... and any precision code, is absent
\* or a well-formed YYYY-MM-DD date, with month and day 01 at year precision
\* and day 01 at month precision.
C3_DatesWellFormed ==
  d_pc = "ret" /\ d_claims # <<>> /\ HasTime(d_claims[1])
  /\ TimeForm(d_claims[1].time.s) =>
    \/ d_result = None
    \/ /\ WellFormedDate(d_result)
       /\ (d_claims[1].precision = Num(9) =>
             d_result.s[3] = "01" /\ d_result.s[5] = "01")
       /\ (d_claims[1].precision = Num(10) => d_result.s[5] = "01")

FetchFailed == m_resp.status # "ok" \/ m_resp.data # "dict"

\* C4: the view count returned is a non-negative integer for every metrics
\* response, and 0 when the fetch or the parse fails.
C4_ViewsNonNegative ==
  m_pc = "ret" =>
    /\ m_views.t = "num"
    /\ m_views.n >= 0
    /\ (FetchFailed => m_views.n = 0)

\* C5: no failure in a fetch step of a title aborts the run.
C5_NeverAborts == pc # "aborted"

Malformed(c) == ~HasTime(c) \/ ~TimeForm(c.time.s)

\* C6: _extract_date returns absent (no date text at all) for an empty claim
\* list and for every malformed first claim, whatever follows it.
C6_MalformedIsAbsent ==
  d_pc = "ret" /\ (d_claims = <<>> \/ Malformed(d_claims[1])) => ~Present(d_result)

\* sum of the usable views values, a missing or null one counting 0
RECURSIVE UsableSum(_)
UsableSum(items) ==
  IF items = <<>> THEN 0
  ELSE (IF Head(items).views.t = "num" THEN Head(items).views.n ELSE 0)
       + UsableSum(Tail(items))

\* C7: on a successful response whose items have views that are missing,
\* null or a count (a number >= 0), the result is the sum of the counts.
C7_SumOfViews ==
  /\ m_pc = "ret" /\ ~FetchFailed /\ m_resp.has_items
  /\ \A k \in 1..Len(m_resp.items) :
       /\ m_resp.items[k].kind = "dict"
       /\ m_resp.items[k].views.t \in {"missing", "null", "num"}
       /\ m_resp.items[k].views.n >= 0
  => m_views = Num(UsableSum(m_resp.items))

\* C8: every metrics request asks for a range that starts on January 1 of
\* the year of the system clock and ends within that year.
C8_CurrentYearRange ==
  \A p \in 1..Len(log) :
    log[p].kind = "metrics" =>
      /\ log[p].range.start = format_int(now_year) \o <<"0", "1", "0", "1">>
      /\ SubSeq(log[p].range.end, 1, 4) = format_int(now_year)

Rank(kind) ==
  CASE kind = "lookup" -> 1 [] kind = "entity" -> 2 [] kind = "metrics" -> 3 [] OTHER -> 4

IsRequest(e) == e.kind \in {"lookup", "entity", "metrics"}

\* C9: the requests of a run are ordered by title and, within a title, as
\* lookup, entity fetch, metrics fetch, each at most once; an entity fetch
\* follows a lookup that returned an identifier and a metrics fetch an entity
\* fetch that returned a target title.
C9_RequestOrder ==
  /\ \A p, q \in 1..Len(log) :
       p < q /\ IsRequest(log[p]) /\ IsRequest(log[q]) =>
         \/ log[p].i < log[q].i
         \/ log[p].i = log[q].i /\ Rank(log[p].kind) < Rank(log[q].kind)
  /\ \A q \in 1..Len(log) :
       /\ log[q].kind = "entity" =>
            /\ q > 1 /\ log[q-1] = Event("lookup", log[q].i, NoRange)
            /\ truthy(hist[log[q].i].id)
       /\ log[q].kind = "metrics" =>
            /\ q > 1 /\ log[q-1] = Event("entity", log[q].i, NoRange)
            /\ truthy(hist[log[q].i].title)

\* a run that made all three requests for its second title
C9_Witness ==
  /\ pc = "done"
  /\ \E q \in 1..Len(log) : log[q].kind = "metrics" /\ log[q].i = 2
  /\ \E q \in 1..Len(log) : log[q].kind = "lookup" /\ log[q].i = 1

\* C10: where the log passes from one title to the next, the event before
\* the first request of the next title is a pause.
C10_PauseBetweenTitles ==
  \A p \in 1..(Len(log) - 1) :
    log[p].i # log[p+1].i => log[p].kind = "sleep"
====
